---- MODULE Spec2Model ----
(***************************************************************************)
(* Office attendance tracker (src/attendance_tracker.py).                  *)
(*                                                                         *)
(* Calendar dates are proleptic Gregorian ordinals (date.toordinal()):     *)
(* ordinal 1 is Monday 0001-01-01, so date.weekday() is (ordinal + 6) % 7  *)
(* and a timedelta of w weeks is 7 * w.  A Python dict is a sequence of    *)
(* <<key, value>> pairs in insertion order; a Python list is a sequence.   *)
(***************************************************************************)
EXTENDS Integers, Sequences, FiniteSets, TLC

VARIABLES
    attendance,      \* st.session_state.attendance: set of dates
    ooo,             \* st.session_state.ooo: set of dates
    reference_date,  \* selected_future_week / reference_date argument
    iter_order,      \* the iteration order the set type happens to give
    past_days,       \* best_8_week_attendance(...)[0]
    past_summary,    \* best_8_week_attendance(...)[1], also the planner's summary
    best_weeks,      \* best_8_week_attendance(...)[2]
    today,           \* datetime.today().date() inside calculate_future_needs
    plan,            \* calculate_future_needs: the plan dict
    shortfall,       \* calculate_future_needs: the running shortfall
    idx,             \* calculate_future_needs: position of the first loop
    pc,              \* calculate_future_needs: "alloc", "fill", "done"; "idle" elsewhere
    needs            \* the dict calculate_future_needs returns

vars == <<attendance, ooo, reference_date, iter_order, past_days, past_summary,
          best_weeks, today, plan, shortfall, idx, pc, needs>>

----------------------------------------------------------------------------
(* Program constants *)

POLICY_DAYS_REQUIRED == 24
MaxPerWeek == 3
WorkDays == 5
BestN == 8
WindowWeeks == 12
FutureWeeks == 5

(* Monday 2025-01-06 as an ordinal: the calendar the bounded inputs sit on *)
BaseMonday == 1 + 7 * 105608

----------------------------------------------------------------------------
(* Sequence and dict helpers *)

Range(s) == {s[i] : i \in DOMAIN s}

Min(a, b) == IF a <= b THEN a ELSE b

Max(a, b) == IF a >= b THEN a ELSE b

RECURSIVE SumSeq(_)
SumSeq(s) == IF s = <<>> THEN 0 ELSE Head(s) + SumSeq(Tail(s))

Take(s, n) == SubSeq(s, 1, Min(n, Len(s)))

Keys(d) == {d[i][1] : i \in DOMAIN d}

Values(d) == [i \in DOMAIN d |-> d[i][2]]

HasKey(d, k) == \E i \in DOMAIN d : d[i][1] = k

Get(d, k) == d[CHOOSE i \in DOMAIN d : d[i][1] = k][2]

(* d[k] = v: overwrite in place, or insert at the end *)
Put(d, k, v) ==
    IF HasKey(d, k)
    THEN [i \in DOMAIN d |-> IF d[i][1] = k THEN <<k, v>> ELSE d[i]]
    ELSE Append(d, <<k, v>>)

(* key order of sorted(..., key=lambda x: x[1], reverse=...) *)
KeyBefore(x, y, reverse) == IF reverse THEN x[2] > y[2] ELSE x[2] < y[2]

(* where the stable sort puts x in an already sorted sequence *)
RECURSIVE InsertBy(_, _, _)
InsertBy(x, s, reverse) ==
    IF s = <<>> THEN <<x>>
    ELSE IF KeyBefore(x, Head(s), reverse) THEN <<x>> \o s
    ELSE <<Head(s)>> \o InsertBy(x, Tail(s), reverse)

(* sorted(s, key=lambda x: x[1], reverse=reverse): stable, so an element   *)
(* goes after every earlier element it is not strictly before              *)
RECURSIVE SortedByValue(_, _)
SortedByValue(s, reverse) ==
    IF s = <<>> THEN <<>>
    ELSE InsertBy(s[Len(s)], SortedByValue(SubSeq(s, 1, Len(s) - 1), reverse), reverse)

----------------------------------------------------------------------------
(* Iteration over a set: the order is the set type's own. Two orders stand *)
(* for it: ascending, and one scrambled by a hash.                         *)

IterOrders == {"asc", "hash"}

IterKey(d, ord) ==
    IF ord = "asc" THEN d ELSE ((d * 5) % 11) * 1000000 + (d % 1000000)

RECURSIVE Iterate(_, _)
Iterate(S, ord) ==
    IF S = {} THEN <<>>
    ELSE LET x == CHOOSE x \in S : \A y \in S : IterKey(x, ord) <= IterKey(y, ord)
         IN <<x>> \o Iterate(S \ {x}, ord)

----------------------------------------------------------------------------
(* The calculation functions *)

weekday(date) == (date + 6) % 7

get_week_start(date) == date - weekday(date)

(* summary.setdefault(week_start, []).append(d) *)
SetDefaultAppend(summary, k, d) ==
    IF HasKey(summary, k) THEN Put(summary, k, Append(Get(summary, k), d))
    ELSE Put(summary, k, <<d>>)

RECURSIVE GroupByWeek(_, _)
GroupByWeek(days, summary) ==
    IF days = <<>> THEN summary
    ELSE GroupByWeek(Tail(days), SetDefaultAppend(summary, get_week_start(Head(days)), Head(days)))

(* variant: counts the weeks, not the days in them *)
summarize_weeks_dup(days) ==
    LET summary == GroupByWeek(days, <<>>)
    IN [i \in DOMAIN summary |-> <<summary[i][1], 1>>]

(* days: the iteration of the attendance collection *)
summarize_weeks(days) ==
    LET summary == GroupByWeek(days, <<>>)
    IN [i \in DOMAIN summary |-> <<summary[i][1], Len(summary[i][2])>>]

(* variant: range(0, 12), the reference week first *)
past_12_weeks_from0(cutoff) == [i \in 1..WindowWeeks |-> cutoff - 7 * (i - 1)]

(* [cutoff - timedelta(weeks=w) for w in range(1, 13)] *)
past_12_weeks(cutoff) == [i \in 1..WindowWeeks |-> cutoff - 7 * i]

(* variant: reverse=True left out *)
best_8_of_ascending(summary) == Take(SortedByValue(summary, FALSE), BestN)

(* sorted(summary.items(), key=lambda x: x[1], reverse=True)[:8] *)
best_8_of(summary) == Take(SortedByValue(summary, TRUE), BestN)

(* lines 28-31: the summary of the days whose week is one of the 12 before *)
(* the reference week; days: the iteration of attendance                   *)
windowed_summary(days, ref) ==
    LET cutoff == get_week_start(ref)
        window == Range(past_12_weeks(cutoff))
        InWindow(d) == get_week_start(d) \in window
    IN summarize_weeks(SelectSeq(days, InWindow))

(* returns <<total, summary, best_8>> *)
best_8_week_attendance(days, ref) ==
    LET summary == windowed_summary(days, ref)
        best_8 == best_8_of(summary)
    IN <<SumSeq(Values(best_8)), summary, best_8>>

----------------------------------------------------------------------------
(* calculate_future_needs, one step of its loops at a time *)

(* variant: num_weeks without the + 1 *)
candidate_weeks_short(tdy, ref) ==
    LET start_week == get_week_start(tdy)
        end_week == get_week_start(ref + 7 * FutureWeeks)
        num_weeks == (end_week - start_week) \div 7
    IN [i \in 1..num_weeks |-> start_week + 7 * (i - 1)]

(* lines 37-43; range(num_weeks) is empty for num_weeks <= 0 *)
candidate_weeks(tdy, ref) ==
    LET start_week == get_week_start(tdy)
        end_week == get_week_start(ref + 7 * FutureWeeks)
        num_weeks == (end_week - start_week) \div 7 + 1
    IN [i \in 1..num_weeks |-> start_week + 7 * (i - 1)]

(* sum(sorted(summary.values(), reverse=True)[:8]) *)
current_total(summary) == SumSeq(Values(Take(SortedByValue(summary, TRUE), BestN)))

(* variant: the out-of-office days left out *)
available_days_no_ooo(week, ooo_days) == Min(MaxPerWeek, WorkDays)

(* min(3, 5 - len([d for d in ooo_days if get_week_start(d) == week])) *)
available_days(week, ooo_days) ==
    Min(MaxPerWeek, WorkDays - Cardinality({d \in ooo_days : get_week_start(d) = week}))

(* for week in candidate_weeks: if week not in plan: plan[week] = 0 *)
RECURSIVE FillZeros(_, _)
FillZeros(weeks, p) ==
    IF weeks = <<>> THEN p
    ELSE FillZeros(Tail(weeks), IF HasKey(p, Head(weeks)) THEN p ELSE Put(p, Head(weeks), 0))

RECURSIVE InsertByKey(_, _)
InsertByKey(x, s) ==
    IF s = <<>> THEN <<x>>
    ELSE IF x[1] < Head(s)[1] THEN <<x>> \o s
    ELSE <<Head(s)>> \o InsertByKey(x, Tail(s))

(* dict(sorted(plan.items())): the keys are distinct, so by key *)
RECURSIVE SortedItems(_)
SortedItems(p) ==
    IF p = <<>> THEN <<>>
    ELSE InsertByKey(p[Len(p)], SortedItems(SubSeq(p, 1, Len(p) - 1)))

(* lines 37-49: the call, up to the first loop *)
Begin ==
    /\ pc = "start"
    /\ shortfall' = Max(POLICY_DAYS_REQUIRED - current_total(past_summary), 0)
    /\ plan' = <<>>
    /\ idx' = 1
    /\ pc' = "alloc"
    /\ UNCHANGED <<attendance, ooo, reference_date, iter_order, past_days,
                   past_summary, best_weeks, today, needs>>

(* lines 50-56: one iteration of the allocating loop, with its break *)
AllocWeek ==
    /\ pc = "alloc"
    /\ idx <= Len(candidate_weeks(today, reference_date))
    /\ LET week == candidate_weeks(today, reference_date)[idx]
           allocated == Min(available_days(week, ooo), shortfall)
       IN /\ plan' = Put(plan, week, allocated)
          /\ shortfall' = shortfall - allocated
          /\ IF shortfall' <= 0
             THEN pc' = "fill" /\ idx' = idx
             ELSE pc' = "alloc" /\ idx' = idx + 1
    /\ UNCHANGED <<attendance, ooo, reference_date, iter_order, past_days,
                   past_summary, best_weeks, today, needs>>

(* the allocating loop runs out of candidate weeks *)
LoopEnd ==
    /\ pc = "alloc"
    /\ idx > Len(candidate_weeks(today, reference_date))
    /\ pc' = "fill"
    /\ UNCHANGED <<attendance, ooo, reference_date, iter_order, past_days,
                   past_summary, best_weeks, today, plan, shortfall, idx, needs>>

(* lines 58-63: fill the rest with 0 and return the plan in key order *)
FillAndReturn ==
    /\ pc = "fill"
    /\ plan' = FillZeros(candidate_weeks(today, reference_date), plan)
    /\ needs' = SortedItems(plan')
    /\ pc' = "done"
    /\ UNCHANGED <<attendance, ooo, reference_date, iter_order, past_days,
                   past_summary, best_weeks, today, shortfall, idx>>

----------------------------------------------------------------------------
(* The page: one status radio per day, then the summary column *)

Recompute(att, ref, ord) == best_8_week_attendance(Iterate(att, ord), ref)

Statuses == {"None", "Office", "WFH"}

(* lines 149-157, the attendance set *)
attendance_after(att, day, status) ==
    IF status = "Office" THEN att \cup {day} ELSE att \ {day}

(* variant: Office and None leave the out-of-office set alone *)
ooo_after_keep_wfh(ooo_days, day, status) ==
    IF status = "WFH" THEN ooo_days \cup {day} ELSE ooo_days

(* lines 149-157, the out-of-office set *)
ooo_after(ooo_days, day, status) ==
    IF status = "WFH" THEN ooo_days \cup {day} ELSE ooo_days \ {day}

(* the radio of one day takes a status; lines 168 recomputes the best 8 *)
Mark(day, status) ==
    /\ pc = "idle"
    /\ attendance' = attendance_after(attendance, day, status)
    /\ ooo' = ooo_after(ooo, day, status)
    /\ past_summary' = windowed_summary(Iterate(attendance', iter_order), reference_date)
    /\ best_weeks' = best_8_of(past_summary')
    /\ past_days' = SumSeq(Values(best_weeks'))
    /\ UNCHANGED <<reference_date, iter_order, today, plan, shortfall, idx, pc, needs>>

----------------------------------------------------------------------------
(* SpecBest: days are marked Office one after another and the page         *)
(* recomputes best_8_week_attendance after each.                           *)

RecentWeeks == 8

(* the weeks (counted back from BaseMonday) that have a Monday to mark:    *)
(* the reference week, the recent ones, and the 12th and 13th before       *)
BestWeekOffsets == (0..RecentWeeks) \cup {WindowWeeks, WindowWeeks + 1}

(* two more days, to make the counts differ: a Tuesday and a Sunday *)
BestExtraDays == {BaseMonday - 7 + 1, BaseMonday - 14 + 6}

BestDays == {BaseMonday - 7 * w : w \in BestWeekOffsets} \cup BestExtraDays

(* a Monday, and the Wednesday of the week after *)
BestRefs == {BaseMonday, BaseMonday + 7 + 2}

InitBest ==
    /\ attendance = {}
    /\ ooo = {}
    /\ reference_date \in BestRefs
    /\ iter_order \in IterOrders
    /\ past_days = Recompute(attendance, reference_date, iter_order)[1]
    /\ past_summary = Recompute(attendance, reference_date, iter_order)[2]
    /\ best_weeks = Recompute(attendance, reference_date, iter_order)[3]
    /\ today = BaseMonday
    /\ plan = <<>>
    /\ shortfall = 0
    /\ idx = 0
    /\ pc = "idle"
    /\ needs = <<>>

NextBest == \E day \in BestDays : day \notin attendance /\ Mark(day, "Office")

SpecBest == InitBest /\ [][NextBest]_vars

----------------------------------------------------------------------------
(* SpecMark: every status of every shown day, from what load_data gives    *)

MarkedDays == 5

(* lines 116, 128-129: the first shown days of the future weeks, Monday to *)
(* Friday of each week                                                     *)
MarkDays ==
    {BaseMonday + 7 * (k \div WorkDays) + (k % WorkDays) : k \in 0..(MarkedDays - 1)}

(* dates the data file may hold that the page does not show: a weekend *)
LoadedDays == {BaseMonday + 5, BaseMonday + 6}

InitMark ==
    /\ attendance \in SUBSET LoadedDays
    /\ ooo \in SUBSET LoadedDays
    /\ attendance \cap ooo = {}
    /\ reference_date = BaseMonday
    /\ iter_order \in IterOrders
    /\ past_days = Recompute(attendance, reference_date, iter_order)[1]
    /\ past_summary = Recompute(attendance, reference_date, iter_order)[2]
    /\ best_weeks = Recompute(attendance, reference_date, iter_order)[3]
    /\ today = BaseMonday
    /\ plan = <<>>
    /\ shortfall = 0
    /\ idx = 0
    /\ pc = "idle"
    /\ needs = <<>>

NextMark == \E day \in MarkDays, status \in Statuses : Mark(day, status)

SpecMark == InitMark /\ [][NextMark]_vars

----------------------------------------------------------------------------
(* SpecPlan: calculate_future_needs on bounded inputs *)

MaxSummaryWeeks == 9
MaxCount == 3
MaxOOOPrefix == 7
MaxRefAhead == 0

(* summaries of n weeks before the reference week, counts a, b, a, b, ... *)
SummaryInputs(ref) ==
    {[i \in 1..n |-> <<get_week_start(ref) - 7 * i, IF i % 2 = 1 THEN a ELSE b>>] :
        n \in 0..MaxSummaryWeeks, a \in 1..MaxCount, b \in 1..MaxCount}

(* out-of-office dates: the first k1 days from this Monday on (weekend     *)
(* included), and none or six of the days of the next week                 *)
OOOInputs ==
    {{BaseMonday + i : i \in 0..(k1 - 1)} \cup {BaseMonday + 7 + i : i \in 0..(k2 - 1)} :
        k1 \in 0..MaxOOOPrefix, k2 \in {0, WorkDays + 1}}

PlanTodays == {BaseMonday, BaseMonday + 3}

(* reference dates that give no, one, three, six and more candidate weeks *)
PlanRefs ==
    {BaseMonday - 7 * k : k \in {FutureWeeks + 2, FutureWeeks + 1, FutureWeeks, FutureWeeks - 2}}
        \cup {BaseMonday + 7 * k : k \in 0..MaxRefAhead}

InitPlan ==
    /\ attendance = {}
    /\ ooo \in OOOInputs
    /\ reference_date \in PlanRefs
    /\ iter_order = "asc"
    /\ past_days = 0
    /\ past_summary \in SummaryInputs(reference_date)
    /\ best_weeks = <<>>
    /\ today \in PlanTodays
    /\ plan = <<>>
    /\ shortfall = 0
    /\ idx = 0
    /\ pc = "start"
    /\ needs = <<>>

NextPlan == Begin \/ AllocWeek \/ LoopEnd \/ FillAndReturn

SpecPlan == InitPlan /\ [][NextPlan]_vars

----------------------------------------------------------------------------
(* What the properties are stated with: the calendar and the inputs, not   *)
(* the functions above.                                                    *)

IsMonday(m) == m % 7 = 1

(* the Monday of the week of d *)
MondayOf(d) == CHOOSE m \in (d - 6)..d : IsMonday(m)

(* the sum of the k largest numbers of a sequence *)
RECURSIVE LargestSum(_, _)
LargestSum(s, k) ==
    IF k = 0 \/ s = <<>> THEN 0
    ELSE LET i == CHOOSE i \in DOMAIN s : \A j \in DOMAIN s : s[i] >= s[j]
         IN s[i] + LargestSum([j \in 1..(Len(s) - 1) |-> IF j < i THEN s[j] ELSE s[j + 1]], k - 1)

(* the dates of the attendance set that the best-8 calculation admits *)
InBestWindow(d) ==
    \E w \in 1..WindowWeeks : MondayOf(d) = MondayOf(reference_date) - 7 * w

WindowDays == {d \in attendance : InBestWindow(d)}

OOOCount(w) == Cardinality({d \in ooo : MondayOf(d) = w})

Capacity(w) == Min(MaxPerWeek, WorkDays - OOOCount(w))

ClampedCapacity(w) == Max(0, Capacity(w))

RECURSIVE SumClamped(_)
SumClamped(S) ==
    IF S = {} THEN 0
    ELSE LET w == CHOOSE w \in S : TRUE IN ClampedCapacity(w) + SumClamped(S \ {w})

(* the shortfall the planner starts from *)
Shortfall0 == Max(POLICY_DAYS_REQUIRED - LargestSum(Values(past_summary), BestN), 0)

(* the shortfall left after the first n weeks of plan p *)
RunningAfter(p, n) == Shortfall0 - SumSeq(Values(SubSeq(p, 1, n)))

(* the Mondays from the week of today to the week of reference + 5 weeks *)
PlanMondays ==
    {m \in MondayOf(today)..MondayOf(reference_date + 7 * FutureWeeks) : IsMonday(m)}

Returned == pc = "done"

----------------------------------------------------------------------------
(* SpecPlan: the claims about calculate_future_needs *)

(* C1, as amended: every week of a returned plan gets at most its capacity *)
(* min(3, 5 - out-of-office dates of the week) floored at 0, and at most   *)
(* the shortfall left before it, the weeks taken in chronological order    *)
(* from max(24 - sum of the 8 largest summary values, 0).                  *)
C1_WithinClampedCapacity ==
    Returned =>
        \A i \in DOMAIN needs :
            /\ needs[i][2] <= ClampedCapacity(needs[i][1])
            /\ needs[i][2] <= RunningAfter(needs, i - 1)

(* C1 as written: the capacity is min(3, 5 - out-of-office dates), which   *)
(* is negative for a week with 6 or 7 such dates.                          *)
C1_WithinCapacity ==
    Returned =>
        \A i \in DOMAIN needs :
            /\ needs[i][2] <= Capacity(needs[i][1])
            /\ needs[i][2] <= RunningAfter(needs, i - 1)

(* a week held down by its out-of-office days, then a week that takes the  *)
(* shortfall that is left                                                  *)
C1_Witness ==
    /\ Returned
    /\ \E i, j \in DOMAIN needs :
        /\ i < j
        /\ needs[i][2] = Capacity(needs[i][1])
        /\ needs[i][2] \in 1..(MaxPerWeek - 1)
        /\ needs[j][2] = RunningAfter(needs, j - 1)
        /\ needs[j][2] > 0

(* C2: when the capacities of the candidate weeks, each floored at 0, add  *)
(* up to the original shortfall or more, the returned plan adds up to the  *)
(* original shortfall; for every out-of-office set.                        *)
C2_ExhaustsShortfall ==
    Returned =>
        (SumClamped(PlanMondays) >= Shortfall0 => SumSeq(Values(needs)) = Shortfall0)

(* C3: every value of the plan is in 0..3 and the running shortfall never  *)
(* goes up from a week to the next; for every out-of-office set.           *)
C3_ValuesInRange ==
    \A i \in DOMAIN plan :
        /\ plan[i][2] \in 0..MaxPerWeek
        /\ RunningAfter(plan, i) <= RunningAfter(plan, i - 1)

(* C9: the keys of the returned plan are the Mondays from the week of      *)
(* today to the week of reference + 5 weeks, each once, ascending; the     *)
(* weeks after the last one allocated hold 0; no such Monday, empty plan.  *)
C9_KeysAreCandidateMondays ==
    Returned =>
        /\ Keys(needs) = PlanMondays
        /\ \A i, j \in DOMAIN needs : i < j => needs[i][1] < needs[j][1]
        /\ \A i \in DOMAIN needs : i > idx => needs[i][2] = 0
        /\ (MondayOf(today) > MondayOf(reference_date + 7 * FutureWeeks) => needs = <<>>)

(* six candidate weeks, the allocation stopped before the last of them *)
C9_Witness ==
    /\ Returned
    /\ Len(needs) = FutureWeeks + 1
    /\ idx < Len(needs)
    /\ needs[1][2] > 0
    /\ needs[Len(needs)][2] = 0

(* C10: every week before a week with a non-zero allocation gets its full  *)
(* capacity min(3, 5 - out-of-office dates), and once the running          *)
(* shortfall is 0 every later week is 0.                                   *)
C10_GreedyEarliestFirst ==
    Returned =>
        /\ \A i, j \in DOMAIN needs :
            (i < j /\ needs[j][2] # 0) => needs[i][2] = Capacity(needs[i][1])
        /\ \A n \in 0..Len(needs) :
            RunningAfter(needs, n) = 0 =>
                \A j \in DOMAIN needs : j > n => needs[j][2] = 0

----------------------------------------------------------------------------
(* SpecBest: the claims about best_8_week_attendance and summarize_weeks *)

(* C4: a date is in the returned summary, and so up for the total, exactly *)
(* when its week is one of the 12 before the reference week: the summary's *)
(* keys are the weeks of those dates, each with the number of them, and    *)
(* the total is made of summary entries only (all of them, up to 8 weeks). *)
C4_WindowBoundary ==
    /\ Keys(past_summary) = {MondayOf(d) : d \in WindowDays}
    /\ \A i \in DOMAIN past_summary :
        past_summary[i][2] = Cardinality({d \in WindowDays : MondayOf(d) = past_summary[i][1]})
    /\ Range(best_weeks) \subseteq Range(past_summary)
    /\ past_days = SumSeq(Values(best_weeks))
    /\ (Len(past_summary) <= BestN => past_days = Cardinality(WindowDays))

(* dates in the reference week, 12 weeks before it and 13 weeks before it: *)
(* only the one 12 weeks before is counted                                 *)
C4_Witness ==
    LET cutoff == MondayOf(reference_date)
    IN /\ \E d \in attendance : MondayOf(d) = cutoff
       /\ \E d \in attendance : MondayOf(d) = cutoff - 7 * WindowWeeks
       /\ \E d \in attendance : MondayOf(d) = cutoff - 7 * (WindowWeeks + 1)
       /\ Keys(past_summary) = {cutoff - 7 * WindowWeeks}
       /\ past_days = 1

(* C5: the chosen list holds min(8, n) pairs of the summary, of distinct   *)
(* weeks, n the number of weeks of the summary; the total is the sum of    *)
(* the min(8, n) largest counts; with n < 8 every week is chosen.          *)
C5_BestEightCap ==
    LET n == Len(past_summary)
    IN /\ Cardinality(Keys(past_summary)) = n
       /\ Len(best_weeks) = Min(BestN, n)
       /\ Cardinality(Keys(best_weeks)) = Len(best_weeks)
       /\ Range(best_weeks) \subseteq Range(past_summary)
       /\ past_days = LargestSum(Values(past_summary), Min(BestN, n))
       /\ past_days = SumSeq(Values(best_weeks))
       /\ (n < BestN => Range(best_weeks) = Range(past_summary))

(* nine weeks with unequal counts: a week of the summary is left out *)
C5_Witness ==
    /\ Len(past_summary) > BestN
    /\ \E i, j \in DOMAIN past_summary : past_summary[i][2] # past_summary[j][2]
    /\ past_days < SumSeq(Values(past_summary))

(* C6: with the reference date fixed, adding a date to the attendance set  *)
(* never lowers the total.                                                 *)
C6_Monotone ==
    [][(reference_date' = reference_date /\ attendance \subseteq attendance')
            => past_days' >= past_days]_vars

(* more than eight weeks in the summary and a total above eight: a date    *)
(* was added to a week while the cap was in force                          *)
C6_Witness ==
    /\ Len(past_summary) > BestN
    /\ past_days > BestN

(* C7: the counts of summarize_weeks(S) add up to |S|, every date counted  *)
(* once under the Monday of its week; for the dates the page hands it and  *)
(* for the whole attendance set.                                           *)
C7_SummaryConservation ==
    LET whole == summarize_weeks(Iterate(attendance, iter_order))
    IN /\ SumSeq(Values(whole)) = Cardinality(attendance)
       /\ Keys(whole) = {MondayOf(d) : d \in attendance}
       /\ \A i \in DOMAIN whole :
            whole[i][2] = Cardinality({d \in attendance : MondayOf(d) = whole[i][1]})
       /\ Cardinality(Keys(whole)) = Len(whole)
       /\ SumSeq(Values(past_summary)) = Cardinality(WindowDays)

(* a set with two dates in one week, one of them a Sunday, and other weeks *)
C7_Witness ==
    /\ \E d, e \in attendance : d # e /\ MondayOf(d) = MondayOf(e) /\ e = MondayOf(e) + 6
    /\ Cardinality(attendance) >= 4

----------------------------------------------------------------------------
(* SpecMark: the claim about the status radios *)

(* C8: from disjoint sets, whatever statuses are selected, no date is both *)
(* in the office set and in the out-of-office set.                         *)
C8_Disjoint == attendance \cap ooo = {}

(* shown days marked both ways, next to the loaded ones *)
C8_Witness ==
    /\ attendance \cap MarkDays # {}
    /\ ooo \cap MarkDays # {}
    /\ attendance \cap LoadedDays # {}

====
